---- MODULE Spec2Model ----
\* Article collection loop of NewsAPI.ipynb (The Guardian content API):
\* paginated fetch, filter to article entries, field extraction with text
\* repair, accumulation in all_articles.
EXTENDS Integers, Sequences, FiniteSets, TLC

\* ---------------------------------------------------------------------------
\* Bounds of the model.  The notebook sets max_limit = 20 and page_limit = 50;
\* the model runs the same loop with a smaller ceiling and page size.
\* ---------------------------------------------------------------------------
max_limit == 2

page_limit == 2

\* Number of pieces an input string of the text-repair check is built from.
MaxPieces == 3

\* ---------------------------------------------------------------------------
\* Text.  A Python str is a sequence of characters; the characters the repair
\* table mentions are named by their code points:
\*   acirc U+00E2, euro U+20AC, tm U+2122, oe U+0153, fffd U+FFFD,
\*   cent U+00A2, Atilde U+00C3, copy U+00A9, frac14 U+00BC, ldquo U+201C.
\* ---------------------------------------------------------------------------
IsPrefix(p, s) ==
    /\ Len(p) <= Len(s)
    /\ \A i \in 1..Len(p) : s[i] = p[i]

\* Variant of Replace: only the first occurrence is replaced.
RECURSIVE ReplaceFirst(_, _, _)
ReplaceFirst(s, old, new) ==
    IF Len(s) < Len(old) THEN s
    ELSE IF IsPrefix(old, s)
         THEN new \o SubSeq(s, Len(old) + 1, Len(s))
         ELSE <<Head(s)>> \o ReplaceFirst(Tail(s), old, new)

\* str.replace(old, new) from position i of s on: leftmost, non-overlapping
\* occurrences, one pass from left to right.
RECURSIVE ReplaceAt(_, _, _, _)
ReplaceAt(s, i, old, new) ==
    IF i + Len(old) - 1 > Len(s) THEN SubSeq(s, i, Len(s))
    ELSE IF SubSeq(s, i, i + Len(old) - 1) = old
         THEN new \o ReplaceAt(s, i + Len(old), old, new)
         ELSE <<s[i]>> \o ReplaceAt(s, i + 1, old, new)

\* str.replace(old, new)
Replace(s, old, new) == ReplaceAt(s, 1, old, new)

\* The chain of replace calls of clean_text, in the order they are applied.
RepairTable ==
    << [old |-> <<"acirc", "euro", "tm">>,    new |-> <<"'">>],
       [old |-> <<"acirc", "euro", "oe">>,    new |-> <<"dquote">>],
       [old |-> <<"acirc", "euro", "fffd">>,  new |-> <<"dquote">>],
       [old |-> <<"acirc", "euro", "cent">>,  new |-> <<"*">>],
       [old |-> <<"Atilde", "copy">>,         new |-> <<"e">>],
       [old |-> <<"Atilde", "frac14">>,       new |-> <<"u">>],
       [old |-> <<"acirc", "euro", "ldquo">>, new |-> <<"-">>] >>

\* The replace calls from the k-th on, applied to s.  Each call works on the
\* string the call before it returned: t is that string, computed once.
RECURSIVE ReplaceFrom(_, _)
ReplaceFrom(s, k) ==
    IF k > Len(RepairTable) THEN s
    ELSE CHOOSE r \in
             {ReplaceFrom(t, k + 1) :
                 t \in {Replace(s, RepairTable[k].old, RepairTable[k].new)}} :
             TRUE

clean_text(text) == CHOOSE r \in {ReplaceFrom(t, 1) : t \in {text}} : TRUE

\* ---------------------------------------------------------------------------
\* Dictionaries.  A Python dict is a function on its keys; d[k] raises
\* KeyError when k is not a key.
\* ---------------------------------------------------------------------------
Has(d, k) == k \in DOMAIN d

Tag(kind, name) == [type |-> kind, webTitle |-> name]

Block(text) == [bodyTextSummary |-> text]

\* The records of the upstream.  The record at position i of page p carries
\* Ident(p, i) in its title and texts, so no two records are alike; it stands
\* for the rest of the text and is a single character to clean_text.
Ident(p, i) == ToString(p) \o "." \o ToString(i)

\* An article with a keyword tag between two contributor tags and one body
\* block.
ArticleOne(p, i) ==
    [type |-> "article",
     webTitle |-> <<"acirc", "euro", "tm", Ident(p, i)>>,
     webPublicationDate |-> "2021-03-12",
     tags |-> << Tag("contributor", <<"J", "Atilde", "copy", Ident(p, i)>>),
                 Tag("keyword", <<"k", Ident(p, i)>>),
                 Tag("contributor", <<"M", Ident(p, i)>>) >>,
     blocks |-> [body |-> << Block(<<"acirc", "euro", "oe", Ident(p, i),
                                     "acirc", "euro", "fffd">>) >>]]

\* An article without contributor tags and with two body blocks.
ArticleTwo(p, i) ==
    [type |-> "article",
     webTitle |-> <<"z", Ident(p, i)>>,
     webPublicationDate |-> "2021-03-11",
     tags |-> << Tag("keyword", <<"q", Ident(p, i)>>) >>,
     blocks |-> [body |-> << Block(<<Ident(p, i), "acirc", "euro", "ldquo">>),
                             Block(<<"second", Ident(p, i)>>) >>]]

Liveblog(p, i) ==
    [type |-> "liveblog",
     webTitle |-> <<"l", "Atilde", "frac14", Ident(p, i)>>,
     webPublicationDate |-> "2021-03-12",
     tags |-> << Tag("contributor", <<"L", Ident(p, i)>>) >>,
     blocks |-> [body |-> << Block(<<"live", Ident(p, i)>>),
                             Block(<<"more">>) >>]]

\* An article entry whose list of body blocks is empty.
ArticleNoBody(p, i) ==
    [type |-> "article",
     webTitle |-> <<"n", Ident(p, i)>>,
     webPublicationDate |-> "2021-03-11",
     tags |-> << Tag("contributor", <<"N", Ident(p, i)>>) >>,
     blocks |-> [body |-> << >>]]

\* An article entry without the tags field.
ArticleNoTags(p, i) ==
    [type |-> "article",
     webTitle |-> <<"t", Ident(p, i)>>,
     webPublicationDate |-> "2021-03-11",
     blocks |-> [body |-> << Block(<<"t", Ident(p, i)>>) >>]]

\* An entry without the type field.
EntryNoType(p, i) ==
    [webTitle |-> <<"u", Ident(p, i)>>,
     webPublicationDate |-> "2021-03-11",
     tags |-> << Tag("contributor", <<"U", Ident(p, i)>>) >>,
     blocks |-> [body |-> << Block(<<"u", Ident(p, i)>>) >>]]

Kinds == {"article", "liveblog", "broken"}

\* The record of kind k at position i of page p; the two shapes of article
\* alternate along the page, the three shapes of broken entry rotate over
\* the positions.
EntryOf(k, p, i) ==
    IF k = "liveblog" THEN Liveblog(p, i)
    ELSE IF k = "article"
         THEN IF i % 2 = 1 THEN ArticleOne(p, i) ELSE ArticleTwo(p, i)
         ELSE IF (p + i) % 3 = 0 THEN EntryNoType(p, i)
         ELSE IF (p + i) % 3 = 1 THEN ArticleNoBody(p, i)
         ELSE ArticleNoTags(p, i)

\* The result lists of n records the upstream may return as page p.
ResultLists(p, n) ==
    {[i \in 1..n |-> EntryOf(k[i], p, i)] : k \in [1..n -> Kinds]}

\* ---------------------------------------------------------------------------
\* Per-entry extraction (the body of "for entry in results").
\* ---------------------------------------------------------------------------
\* Variant of IsArticle: liveblogs pass the filter too.
IsArticleOrLiveblog(entry) == entry.type \in {"article", "liveblog"}

IsArticle(entry) == entry.type = "article"

\* Variant of IsContributor: every tag counts as an author.
IsAnyTag(tag) == TRUE

IsContributor(tag) == tag.type = "contributor"

\* authors = []; for tag in entry['tags']: skip non-contributors, append the
\* repaired name of the others.
RECURSIVE Authors(_)
Authors(tags) ==
    IF tags = << >> THEN << >>
    ELSE IF IsContributor(Head(tags))
         THEN <<clean_text(Head(tags).webTitle)>> \o Authors(Tail(tags))
         ELSE Authors(Tail(tags))

\* The exception the tag loop raises, "none" when it completes.
TagsError(tags) ==
    IF \E i \in 1..Len(tags) :
           \/ ~Has(tags[i], "type")
           \/ IsContributor(tags[i]) /\ ~Has(tags[i], "webTitle")
    THEN "KeyError" ELSE "none"

\* The exception raised while the fields of an article entry are read, in
\* the order the code reads them; "none" when the entry is appended.
ExtractError(entry) ==
    IF ~Has(entry, "webTitle") THEN "KeyError"
    ELSE IF ~Has(entry, "webPublicationDate") THEN "KeyError"
    ELSE IF ~Has(entry, "tags") THEN "KeyError"
    ELSE IF TagsError(entry.tags) # "none" THEN TagsError(entry.tags)
    ELSE IF ~Has(entry, "blocks") THEN "KeyError"
    ELSE IF ~Has(entry.blocks, "body") THEN "KeyError"
    ELSE IF Len(entry.blocks.body) = 0 THEN "IndexError"
    ELSE IF ~Has(entry.blocks.body[1], "bodyTextSummary") THEN "KeyError"
    ELSE "none"

\* The dict appended to all_articles for an article entry.
Extract(entry) ==
    [title   |-> clean_text(entry.webTitle),
     date    |-> entry.webPublicationDate,
     authors |-> Authors(entry.tags),
     text    |-> clean_text(entry.blocks.body[1].bodyTextSummary)]

\* ---------------------------------------------------------------------------
\* The upstream and its responses.
\* ---------------------------------------------------------------------------
StatusCodes == {200, 429, 500}

\* response.text: not JSON at all, a JSON error document without the
\* 'response' key, or a JSON document with a result list.
NotJson == [valid |-> FALSE]

ErrorDoc == [valid |-> TRUE, doc |-> [message |-> "error"]]

ResultsDoc(rs) == [valid |-> TRUE, doc |-> [response |-> [results |-> rs]]]

Min(a, b) == IF a < b THEN a ELSE b

Max(a, b) == IF a > b THEN a ELSE b

\* The largest number of records the upstream holds for the date range: one
\* more than the loop can ever collect.
MaxHeld == max_limit * page_limit + 1

\* The number of records on page p of a range holding n records.
PageLength(n, p) == Min(page_limit, Max(0, n - (p - 1) * page_limit))

\* What requests.get can do for page p: raise, or return a response.
Outcomes(n, p) ==
    {[raised |-> TRUE]} \cup
    {[raised |-> FALSE, status_code |-> s, text |-> t] :
        s \in StatusCodes,
        t \in {NotJson, ErrorDoc} \cup
              {ResultsDoc(rs) : rs \in ResultLists(p, PageLength(n, p))}}

\* The exception json.loads(response.text)['response']['results'] raises.
ParseError(text) ==
    IF ~text.valid THEN "JSONDecodeError"
    ELSE IF ~Has(text.doc, "response") THEN "KeyError"
    ELSE IF ~Has(text.doc.response, "results") THEN "KeyError"
    ELSE "none"

\* ---------------------------------------------------------------------------
\* The collection loop.
\* ---------------------------------------------------------------------------
VARIABLES
    held,          \* number of records the upstream holds for the date range
    calls,         \* the requests issued, each with the page asked and its outcome
    page,          \* next value of range(1, max_limit + 1)
    pc,            \* position in the cell
    response,      \* response of the last request that returned
    results,       \* result list parsed from response
    idx,           \* position of "for entry in results"
    exc,           \* exception in flight inside the try block
    all_articles,  \* the accumulator
    out,           \* lines printed
    cin,           \* text-repair check: the input string
    cout           \* text-repair check: the entry collected from it

vars == <<held, calls, page, pc, response, results, idx, exc, all_articles,
          out, cin, cout>>

loopvars == <<held, calls, page, pc, response, results, idx, exc,
              all_articles, out>>

NoResponse == [raised |-> TRUE]

NoEntry == [none |-> TRUE]

Init ==
    /\ held \in 0..MaxHeld
    /\ calls = << >>
    /\ page = 1
    /\ pc = "loop"
    /\ response = NoResponse
    /\ results = << >>
    /\ idx = 1
    /\ exc = "none"
    /\ all_articles = << >>
    /\ out = << >>
    /\ cin = << >>
    /\ cout = NoEntry

\* Variant of InRange: the range runs one page too far.
InRangeOffByOne(p) == p <= max_limit + 1

\* range(1, max_limit + 1) still has the value p to give.
InRange(p) == p <= max_limit

\* Variant of StatusOK: only server errors end the loop.
StatusOKLenient(code) == code < 500

StatusOK(code) == code = 200

\* Variants of ShortPage: the comparison is off by one; the test is dropped.
ShortPageOffByOne(rs) == Len(rs) < page_limit - 1

ShortPageOrFull(rs) == Len(rs) <= page_limit

ShortPageNever(rs) == FALSE

\* len(results) < page_limit
ShortPage(rs) == Len(rs) < page_limit

\* Variant of Accumulate: the entry is put in front.
AccumulateFront(acc, e) == <<e>> \o acc

\* all_articles.append(e)
Accumulate(acc, e) == Append(acc, e)

\* Variant of Catches: the clause names the errors of reading a record only.
CatchesDataErrorsOnly(e) == e \in {"KeyError", "IndexError"}

\* Variant of Catches: the clause names one exception type.
CatchesKeyErrorOnly(e) == e = "KeyError"

\* The bare "except:" clause catches every exception.
Catches(e) == TRUE

Raise(e) ==
    /\ exc' = e
    /\ pc' = "except"

\* for page in range(1, max_limit + 1): print("Fetching page " + str(page))
PrintProgress ==
    /\ pc = "loop"
    /\ InRange(page)
    /\ out' = Append(out, [msg |-> "Fetching page", page |-> page])
    /\ pc' = "request"
    /\ UNCHANGED <<held, calls, page, response, results, idx, exc,
                   all_articles, cin, cout>>

\* The head of the try block: call request_api, test the status, parse the
\* result list.
FetchPage ==
    /\ pc = "request"
    /\ \E o \in Outcomes(held, page) :
          /\ calls' = Append(calls, [page |-> page, outcome |-> o])
          /\ IF o.raised
             THEN \* requests.get raised
                  Raise("ConnectionError") /\ UNCHANGED <<response, results, idx>>
             ELSE /\ response' = o
                  /\ IF ~StatusOK(o.status_code)
                     THEN \* if response.status_code != 200: break
                          pc' = "end" /\ UNCHANGED <<exc, results, idx>>
                     ELSE IF ParseError(o.text) # "none"
                     THEN \* json.loads(...)['response']['results'] raised
                          Raise(ParseError(o.text)) /\ UNCHANGED <<results, idx>>
                     ELSE /\ results' = o.text.doc.response.results
                          /\ idx' = 1
                          /\ pc' = "entries"
                          /\ UNCHANGED exc
    /\ UNCHANGED <<held, page, all_articles, out, cin, cout>>

\* One iteration of "for entry in results".
ProcessEntry ==
    /\ pc = "entries"
    /\ idx <= Len(results)
    /\ LET entry == results[idx] IN
         IF ~Has(entry, "type")
         THEN Raise("KeyError") /\ UNCHANGED <<idx, all_articles>>
         ELSE IF ~IsArticle(entry)
         THEN idx' = idx + 1 /\ UNCHANGED <<pc, exc, all_articles>>
         ELSE IF ExtractError(entry) # "none"
         THEN Raise(ExtractError(entry)) /\ UNCHANGED <<idx, all_articles>>
         ELSE /\ all_articles' = Accumulate(all_articles, Extract(entry))
              /\ idx' = idx + 1
              /\ UNCHANGED <<pc, exc>>
    /\ UNCHANGED <<held, calls, page, response, results, out, cin, cout>>

\* After the last entry: if len(results) < page_limit: break, else next page.
CheckLen ==
    /\ pc = "entries"
    /\ idx > Len(results)
    /\ IF ShortPage(results)
       THEN pc' = "end" /\ UNCHANGED page
       ELSE pc' = "loop" /\ page' = page + 1
    /\ UNCHANGED <<held, calls, response, results, idx, exc, all_articles,
                   out, cin, cout>>

\* except: break.  An exception the clause does not catch leaves the cell.
Except ==
    /\ pc = "except"
    /\ IF Catches(exc)
       THEN pc' = "end" /\ exc' = "none"
       ELSE pc' = "crashed" /\ UNCHANGED exc
    /\ UNCHANGED <<held, calls, page, response, results, idx, all_articles,
                   out, cin, cout>>

\* range(1, max_limit + 1) is exhausted: the for statement ends.
LoopExhausted ==
    /\ pc = "loop"
    /\ ~InRange(page)
    /\ pc' = "end"
    /\ UNCHANGED <<held, calls, page, response, results, idx, exc,
                   all_articles, out, cin, cout>>

\* print("Done!")
PrintDone ==
    /\ pc = "end"
    /\ out' = Append(out, [msg |-> "Done!"])
    /\ pc' = "done"
    /\ UNCHANGED <<held, calls, page, response, results, idx, exc,
                   all_articles, cin, cout>>

Next ==
    \/ PrintProgress
    \/ FetchPage
    \/ ProcessEntry
    \/ CheckLen
    \/ Except
    \/ LoopExhausted
    \/ PrintDone

Spec == Init /\ [][Next]_vars

\* The cell is a sequential program: while a statement remains to be run, the
\* interpreter runs it, and a request returns or raises.
FairSpec == Spec /\ WF_vars(Next)

\* ---------------------------------------------------------------------------
\* Text repair on its own: an entry carrying a given string in its title, in
\* a contributor tag and in its first body block is extracted as the loop
\* extracts it.
\* ---------------------------------------------------------------------------
Pieces ==
    {RepairTable[k].old : k \in 1..Len(RepairTable)} \cup
    { <<"acirc">>, <<"euro">>, <<"acirc", "euro">>, <<"euro", "tm">>,
      <<"tm">>, <<"Atilde">>, <<"copy">>, <<"frac14">>, <<"'">>, <<"e">>,
      <<"x">> }

\* The strings made of at most n pieces.
RECURSIVE Strings(_)
Strings(n) ==
    IF n = 0 THEN {<< >>}
    ELSE LET S == Strings(n - 1) IN S \cup {s \o p : s \in S, p \in Pieces}

EntryWith(s) ==
    [type |-> "article",
     webTitle |-> s,
     webPublicationDate |-> "2021-03-11",
     tags |-> << Tag("contributor", s) >>,
     blocks |-> [body |-> << Block(s) >>]]

InitClean ==
    /\ held = 0
    /\ calls = << >>
    /\ page = 1
    /\ pc = "clean"
    /\ response = NoResponse
    /\ results = << >>
    /\ idx = 1
    /\ exc = "none"
    /\ all_articles = << >>
    /\ out = << >>
    /\ cin \in Strings(MaxPieces)
    /\ cout = NoEntry

ApplyClean ==
    /\ pc = "clean"
    /\ cout' = Extract(EntryWith(cin))
    /\ pc' = "cleaned"
    /\ UNCHANGED <<held, calls, page, response, results, idx, exc,
                   all_articles, out, cin>>

NextClean == ApplyClean

SpecClean == InitClean /\ [][NextClean]_vars

\* ---------------------------------------------------------------------------
\* Vocabulary of the properties.  These read the request log and the state;
\* none of them is used by an action.
\* ---------------------------------------------------------------------------
Last(q) == q[Len(q)]

\* The request returned status 200 and a body with a result list.
Delivered(c) ==
    /\ ~c.outcome.raised
    /\ c.outcome.status_code = 200
    /\ c.outcome.text.valid
    /\ "response" \in DOMAIN c.outcome.text.doc

\* The request returned a status other than 200.
Refused(c) ==
    /\ ~c.outcome.raised
    /\ c.outcome.status_code # 200

\* The request raised, or returned status 200 with a body that does not parse.
Faulted(c) ==
    \/ c.outcome.raised
    \/ /\ c.outcome.status_code = 200
       /\ \/ ~c.outcome.text.valid
          \/ "response" \notin DOMAIN c.outcome.text.doc

\* The records a request handed to the loop.
PageOf(c) ==
    IF Delivered(c) THEN c.outcome.text.doc.response.results ELSE << >>

\* The records handed over by the first k requests, in page order.
RECURSIVE ReturnedUpTo(_)
ReturnedUpTo(k) ==
    IF k = 0 THEN << >> ELSE ReturnedUpTo(k - 1) \o PageOf(calls[k])

ReturnedAll == ReturnedUpTo(Len(calls))

OfKindArticle(r) == "type" \in DOMAIN r /\ r.type = "article"

\* Processing the record raises: it has no kind, or it is an article with a
\* missing field or an empty list of body blocks.
Illformed(r) ==
    \/ "type" \notin DOMAIN r
    \/ /\ r.type = "article"
       /\ \/ {"webTitle", "webPublicationDate", "tags", "blocks"} \ DOMAIN r # {}
          \/ "body" \notin DOMAIN r.blocks
          \/ r.blocks.body = << >>
          \/ "bodyTextSummary" \notin DOMAIN r.blocks.body[1]
          \/ \E i \in 1..Len(r.tags) :
                {"type", "webTitle"} \ DOMAIN r.tags[i] # {}

\* The CollectedArticle of a record, NoEntry when there is none.
Produced(r) == IF Illformed(r) THEN NoEntry ELSE Extract(r)

ArticlesOf(rs) == SelectSeq(rs, OfKindArticle)

\* One CollectedArticle per article-kind record of rs, in the order of rs.
CollectedFrom(rs) ==
    LET a == ArticlesOf(rs) IN [j \in 1..Len(a) |-> Produced(a[j])]

\* The records of rs before the first one whose processing raises.
RECURSIVE Sound(_)
Sound(rs) ==
    IF rs = << >> \/ Illformed(Head(rs)) THEN << >>
    ELSE <<Head(rs)>> \o Sound(Tail(rs))

\* The records the loop has gone through so far.
Processed ==
    IF calls = << >> THEN << >>
    ELSE ReturnedUpTo(Len(calls) - 1) \o
         (IF Delivered(Last(calls))
          THEN SubSeq(PageOf(Last(calls)), 1, idx - 1)
          ELSE << >>)

Stopped == pc \in {"end", "done"}

\* The loop ended at a page shorter than the page size, gone through whole.
Exhausted ==
    /\ Stopped
    /\ calls # << >>
    /\ Delivered(Last(calls))
    /\ Len(PageOf(Last(calls))) < page_limit
    /\ Sound(PageOf(Last(calls))) = PageOf(Last(calls))

\* ---------------------------------------------------------------------------
\* C1: in every run the number of fetch requests is at most the page ceiling
\* and every requested page number lies in 1..max_limit.
\* ---------------------------------------------------------------------------
C1_FetchBound ==
    /\ Len(calls) <= max_limit
    /\ \A i \in 1..Len(calls) : calls[i].page \in 1..max_limit

\* The ceiling is reached: max_limit requests were issued and the loop ended.
C1_Witness ==
    /\ pc = "done"
    /\ Len(calls) = max_limit
    /\ Last(calls).page = max_limit

\* ---------------------------------------------------------------------------
\* C2 as stated: the final accumulator covers all article-kind records the
\* upstream holds for the range, each exactly once, in upstream order.  A
\* record the upstream holds and never returned is in no entry of the output,
\* and the upstream is free to hold an article there: covering the range
\* needs every held record to have been returned.
\* ---------------------------------------------------------------------------
C2_Original ==
    pc = "done" =>
        /\ Len(ReturnedAll) = held
        /\ all_articles = CollectedFrom(ReturnedAll)

\* C2 amended: at every point the accumulator holds one CollectedArticle per
\* article-kind record among the records gone through so far, each once, in
\* upstream order (page order, then intra-page order); it covers the whole
\* range when the loop ended at a short page that was gone through whole.
C2_Amended ==
    /\ all_articles = CollectedFrom(Processed)
    /\ Exhausted =>
          /\ Len(ReturnedAll) = held
          /\ all_articles = CollectedFrom(ReturnedAll)

\* Two different articles were collected from two pages, the second short.
C2_Witness ==
    /\ pc = "done"
    /\ Exhausted
    /\ Len(calls) = 2
    /\ Len(all_articles) >= 2
    /\ all_articles[1] # all_articles[2]
    /\ \E i \in 1..Len(ReturnedAll) : ~OfKindArticle(ReturnedAll[i])

\* ---------------------------------------------------------------------------
\* C3 as stated: a page returned with fewer records than the page size is the
\* last page fetched, and once the loop has stopped the accumulator holds the
\* article-kind records of every page up to and including that one.
\* ---------------------------------------------------------------------------
ShortDelivery(c) == Delivered(c) /\ Len(PageOf(c)) < page_limit

C3_Original ==
    \A i \in 1..Len(calls) :
        ShortDelivery(calls[i]) =>
            /\ i = Len(calls)
            /\ \A j \in 1..Len(calls) : calls[j].page <= calls[i].page
            /\ Stopped => all_articles = CollectedFrom(ReturnedUpTo(i))

\* C3 amended: a page returned with fewer records than the page size is the
\* last page fetched; once the loop has stopped the accumulator holds the
\* article-kind records of the earlier pages and those of the short page that
\* come before its first record whose processing raises (all of them when
\* none raises).
C3_Amended ==
    \A i \in 1..Len(calls) :
        ShortDelivery(calls[i]) =>
            /\ i = Len(calls)
            /\ \A j \in 1..Len(calls) : calls[j].page <= calls[i].page
            /\ Stopped =>
                  all_articles =
                      CollectedFrom(ReturnedUpTo(i - 1) \o Sound(PageOf(calls[i])))

\* Page 2 came back with one article: it was appended and the loop ended.
C3_Witness ==
    /\ pc = "done"
    /\ Len(calls) = 2
    /\ ShortDelivery(calls[2])
    /\ PageOf(calls[2]) = <<ArticleOne(2, 1)>>
    /\ all_articles # << >>
    /\ Last(all_articles) = Extract(ArticleOne(2, 1))

\* ---------------------------------------------------------------------------
\* C4 as stated: if every page returns exactly the requested page size, the
\* loop ends only at the ceiling: pages 1..max_limit are fetched and processed.
\* ---------------------------------------------------------------------------
FullDelivery(c) == Delivered(c) /\ Len(PageOf(c)) = page_limit

AllFull == \A i \in 1..Len(calls) : FullDelivery(calls[i])

PagesInOrder == \A i \in 1..Len(calls) : calls[i].page = i

C5_NonOkStops ==
    \A k \in 1..Len(calls) :
        Refused(calls[k]) =>
            /\ k = Len(calls)
            /\ \A j \in 1..(k - 1) : FullDelivery(calls[j]) /\ calls[j].page = j
            /\ calls[k].page = k
            /\ Stopped
            /\ exc = "none"
            /\ all_articles = CollectedFrom(ReturnedUpTo(k - 1))

\* Page 2 was refused with a body that carries a result list, after a first
\* page that gave entries.
C5_Witness ==
    /\ pc = "done"
    /\ Len(calls) = 2
    /\ Refused(calls[2])
    /\ calls[2].outcome.text = ResultsDoc(<<ArticleOne(2, 1)>>)
    /\ Len(all_articles) = page_limit

\* ---------------------------------------------------------------------------
\* C6: a fault on page k (the request raises, or the body of a 200 response
\* does not parse) ends the loop: page k is the last page requested, the
\* accumulator is what it was before the request, and the exception does not
\* leave the loop.
\* ---------------------------------------------------------------------------
C6_FaultStops ==
    /\ pc # "crashed"
    /\ \A k \in 1..Len(calls) :
          Faulted(calls[k]) =>
              /\ k = Len(calls)
              /\ pc \in {"except", "end", "done"}
              /\ Stopped => exc = "none"
              /\ all_articles = CollectedFrom(ReturnedUpTo(k - 1))

\* The request for page 2 raised after a first page that gave entries.
C6_Witness ==
    /\ pc = "done"
    /\ Len(calls) = 2
    /\ calls[2].outcome.raised
    /\ all_articles # << >>

\* The body of page 2 did not parse after a first page that gave entries.
C6_WitnessBody ==
    /\ pc = "done"
    /\ Len(calls) = 2
    /\ ~calls[2].outcome.raised
    /\ Faulted(calls[2])
    /\ all_articles # << >>

\* ---------------------------------------------------------------------------
\* C7: every entry of the accumulator was produced from a returned record
\* whose kind is exactly 'article', no record of another kind is the source
\* of an entry, and there are no more entries than article-kind records.
\* ---------------------------------------------------------------------------
RangeOf(q) == {q[i] : i \in 1..Len(q)}

\* The returned records an entry can come from: those whose title names the
\* same record as the title of the entry.
SourcesOf(e) ==
    {r \in RangeOf(ReturnedAll) :
        "webTitle" \in DOMAIN r /\ Last(r.webTitle) = Last(e.title)}

C7_OnlyArticles ==
    /\ \A j \in 1..Len(all_articles) :
          /\ SourcesOf(all_articles[j]) # {}
          /\ \A r \in SourcesOf(all_articles[j]) : r.type = "article"
    /\ Len(all_articles) <= Len(ArticlesOf(ReturnedAll))

\* A liveblog was skipped and an article that came after it was appended.
C7_Witness ==
    /\ pc = "done"
    /\ all_articles # << >>
    /\ \E i \in 1..Len(Processed) :
          /\ Processed[i].type = "liveblog"
          /\ \E j \in (i + 1)..Len(Processed) : Processed[j].type = "article"

\* ---------------------------------------------------------------------------
\* C8: the authors of the j-th entry are the repaired names of the
\* contributor-kind tags of the j-th article gone through, in the order of
\* its tag list, and no name of a tag of another kind is among them.
\* ---------------------------------------------------------------------------
ContributorPositions(tags) ==
    {i \in 1..Len(tags) : tags[i].type = "contributor"}

\* a lists the repaired names of the contributor tags, in tag order.
AuthorsMatch(a, tags) ==
    /\ Len(a) = Cardinality(ContributorPositions(tags))
    /\ \E f \in [1..Len(a) -> ContributorPositions(tags)] :
          /\ \A x, y \in 1..Len(a) : x < y => f[x] < f[y]
          /\ \A x \in 1..Len(a) : a[x] = clean_text(tags[f[x]].webTitle)
    /\ \A i \in (1..Len(tags)) \ ContributorPositions(tags) :
          /\ tags[i].webTitle \notin RangeOf(a)
          /\ clean_text(tags[i].webTitle) \notin RangeOf(a)

C8_AuthorsAreContributors ==
    LET src == ArticlesOf(Processed) IN
        /\ Len(all_articles) = Len(src)
        /\ \A j \in 1..Len(all_articles) :
              AuthorsMatch(all_articles[j].authors, src[j].tags)

\* An article with a keyword tag between two contributor tags was collected.
C8_Witness ==
    \E j \in 1..Len(all_articles) :
        /\ ArticlesOf(Processed)[j] = ArticleOne(1, 1)
        /\ all_articles[j].authors = << <<"J", "e", "1.1">>, <<"M", "1.1">> >>

\* ---------------------------------------------------------------------------
\* C10: when every request succeeds with well-formed records and page k, the
\* first page shorter than the page size, is within the ceiling, the loop
\* ends after exactly k requests and the accumulator is the concatenation,
\* in page order and intra-page order, of the entries of pages 1..k.
\* ---------------------------------------------------------------------------
\* The number of the first short page of a range holding n records.
FirstShortPage(n) == (n \div page_limit) + 1

AllDelivered == \A i \in 1..Len(calls) : Delivered(calls[i])

C10_StopsAtFirstShortPage ==
    ( /\ pc = "done"
      /\ AllDelivered
      /\ Sound(ReturnedAll) = ReturnedAll
      /\ FirstShortPage(held) <= max_limit ) =>
        /\ Len(calls) = FirstShortPage(held)
        /\ PagesInOrder
        /\ Len(ReturnedAll) = held
        /\ all_articles = CollectedFrom(ReturnedAll)

\* A full page of articles then a short page of articles: page_limit + 1
\* entries, two requests.
C10_Witness ==
    /\ pc = "done"
    /\ AllDelivered
    /\ Len(calls) = 2
    /\ held = page_limit + 1
    /\ Len(all_articles) = page_limit + 1
    /\ all_articles[1] # all_articles[page_limit + 1]

\* ---------------------------------------------------------------------------
\* C9: title and text of a collected entry contain none of the seven
\* mis-decoded sequences, whatever the input string, and clean_text leaves a
\* cleaned string as it is.
\* ---------------------------------------------------------------------------
\* The mis-decoded right single quote, left double quote, double-quote
\* artifact, bullet, e-acute, u-umlaut and en-dash.
MisdecodedSequences ==
    { <<"acirc", "euro", "tm">>, <<"acirc", "euro", "oe">>,
      <<"acirc", "euro", "fffd">>, <<"acirc", "euro", "cent">>,
      <<"Atilde", "copy">>, <<"Atilde", "frac14">>,
      <<"acirc", "euro", "ldquo">> }

Occurs(m, s) ==
    \E i \in 1..Len(s) : i + Len(m) - 1 <= Len(s) /\ SubSeq(s, i, i + Len(m) - 1) = m

Repaired(s) ==
    /\ \A m \in MisdecodedSequences : ~Occurs(m, s)
    /\ clean_text(s) = s

C9_NoMisdecodedSequence ==
    pc = "cleaned" =>
        /\ Repaired(cout.title)
        /\ Repaired(cout.text)

\* The input holds a whole sequence between the two halves of another one.
C9_Witness ==
    /\ pc = "cleaned"
    /\ cin = <<"acirc", "Atilde", "copy", "euro", "tm">>
    /\ cout.title = <<"acirc", "e", "euro", "tm">>
    /\ cout.text = cout.title

\* ---------------------------------------------------------------------------
\* C11: every run ends normally whatever stops the loop: the k-th progress
\* line names page k and is printed before the k-th request is issued, one
\* line per iteration; 'Done!' is printed exactly once, eventually, as the
\* last line and after the last request; no exception leaves the cell.
\* ---------------------------------------------------------------------------
ProgressLines == SelectSeq(out, LAMBDA l : l.msg = "Fetching page")

DoneLines == SelectSeq(out, LAMBDA l : l.msg = "Done!")

C11_Lines ==
    /\ pc # "crashed"
    /\ \A k \in 1..Len(ProgressLines) : ProgressLines[k].page = k
    /\ \A k \in 1..Len(calls) :
          k <= Len(ProgressLines) /\ calls[k].page = ProgressLines[k].page
    /\ Len(ProgressLines) =
          IF pc = "request" THEN Len(calls) + 1 ELSE Len(calls)
    /\ Len(DoneLines) = (IF pc = "done" THEN 1 ELSE 0)
    /\ pc = "done" => Last(out).msg = "Done!"

\* A request is issued only after the progress line of its iteration.
C11_PrintBeforeFetch ==
    calls' # calls =>
        /\ Len(ProgressLines) = Len(calls) + 1
        /\ Last(out) = [msg |-> "Fetching page", page |-> Last(calls').page]
        /\ out' = out

\* Nothing is requested or printed after 'Done!'.
C11_DoneIsLast == DoneLines # << >> => (calls' = calls /\ out' = out)

C11_TerminatesWithDone ==
    /\ [](C11_Lines)
    /\ [][C11_PrintBeforeFetch /\ C11_DoneIsLast]_vars
    /\ <>[](pc = "done" /\ Len(DoneLines) = 1)

\* The four ways the loop stops, each followed by 'Done!'.
\* The request for page 2 raised.
C11_Witness ==
    /\ pc = "done"
    /\ Len(calls) = 2
    /\ calls[2].outcome.raised
    /\ out = << [msg |-> "Fetching page", page |-> 1],
                [msg |-> "Fetching page", page |-> 2],
                [msg |-> "Done!"] >>

\* The ceiling was reached.
C11_WitnessCeiling ==
    /\ pc = "done"
    /\ page = max_limit + 1
    /\ Len(ProgressLines) = max_limit
    /\ Last(out) = [msg |-> "Done!"]

\* Page 1 was refused.
C11_WitnessRefused ==
    /\ pc = "done"
    /\ Len(calls) = 1
    /\ Refused(calls[1])
    /\ out = <<[msg |-> "Fetching page", page |-> 1], [msg |-> "Done!"]>>

\* The results were exhausted on page 1.
C11_WitnessExhausted ==
    /\ pc = "done"
    /\ Len(calls) = 1
    /\ Exhausted
    /\ out = <<[msg |-> "Fetching page", page |-> 1], [msg |-> "Done!"]>>

\* ---------------------------------------------------------------------------
\* C12: a record of a page fetched with status 200 raises while it is
\* processed.
\* ---------------------------------------------------------------------------
\* The last page was handed to the loop and the record at idx raised: the
\* exception is pending, or was caught and the loop has stopped.
RaisedInPage ==
    /\ calls # << >>
    /\ Delivered(Last(calls))
    /\ pc \in {"except", "end", "done", "crashed"}
    /\ idx <= Len(results)

\* The article-kind records of the last page, and those among them that come
\* before the record that raised.
PageArticles == ArticlesOf(PageOf(Last(calls)))

ArticlesBefore == ArticlesOf(SubSeq(PageOf(Last(calls)), 1, idx - 1))

\* The output is what the earlier pages gave, followed by the entries of the
\* article-kind records that come before the one that raised.
KeepsPartialPage ==
    /\ results = PageOf(Last(calls))
    /\ Illformed(results[idx])
    /\ IsPrefix(ArticlesBefore, PageArticles)
    /\ all_articles =
          CollectedFrom(ReturnedUpTo(Len(calls) - 1)) \o
          [j \in 1..Len(ArticlesBefore) |-> Extract(PageArticles[j])]

\* No page is fetched after the record raised.
NoFetchAfterRaise == RaisedInPage => calls' = calls

\* The accumulator is only ever extended at its end.
AppendOnly == IsPrefix(all_articles, all_articles')

\* C12 as stated: the loop stops without a further fetch, no exception
\* escapes, the entries appended from the earlier records of the page stay,
\* the output ends with a strict prefix of the page's articles, and the
\* accumulator only grows by appending.
C12_Original ==
    /\ [](/\ pc # "crashed"
          /\ RaisedInPage =>
                /\ KeepsPartialPage
                /\ Len(ArticlesBefore) < Len(PageArticles))
    /\ [][NoFetchAfterRaise /\ AppendOnly]_vars
    /\ [](RaisedInPage => <>(pc = "done"))

\* C12 amended: as stated, but the output ends with a prefix of the page's
\* articles that is strict exactly when the record that raised, or a record
\* after it in the page, is of kind article; a record without a kind that
\* raises after the last article of its page leaves all of them in the output.
C12_Amended ==
    /\ [](/\ pc # "crashed"
          /\ RaisedInPage =>
                /\ KeepsPartialPage
                /\ Len(ArticlesBefore) < Len(PageArticles) <=>
                      \E i \in idx..Len(results) : OfKindArticle(results[i]))
    /\ [][NoFetchAfterRaise /\ AppendOnly]_vars
    /\ [](RaisedInPage => <>(pc = "done"))

\* On page 2 an article was appended, then an article without body blocks
\* raised: the output ends with the first of the two articles of the page.
C12_Witness ==
    /\ pc = "done"
    /\ RaisedInPage
    /\ Len(calls) = 2
    /\ results = <<ArticleOne(2, 1), ArticleNoBody(2, 2)>>
    /\ idx = 2
    /\ all_articles # << >>
    /\ Last(all_articles) = Extract(ArticleOne(2, 1))
    /\ Len(ArticlesBefore) = 1 /\ Len(PageArticles) = 2

\* On page 1 an article was appended, then a record without a kind raised:
\* the output holds every article of the page.
C12_WitnessNoKind ==
    /\ pc = "done"
    /\ RaisedInPage
    /\ results = <<ArticleOne(1, 1), EntryNoType(1, 2)>>
    /\ idx = 2
    /\ all_articles = <<Extract(ArticleOne(1, 1))>>
    /\ Len(ArticlesBefore) = Len(PageArticles)

====
